---- MODULE Spec2Model ----
(***************************************************************************)
(* A model of shacl2code's Model class (src/shacl2code/model.py): the      *)
(* constructor Model.__init__, which turns an RDF graph into the lists      *)
(* self.enums and self.classes, and the method Model.get_compact_id.        *)
(*                                                                         *)
(* The constructor is one synchronous run through four loops; one action   *)
(* models one iteration of a loop:                                         *)
(*   lines 100-132  classification of the owl:Class subjects                *)
(*   lines 144-217  construction of the Class records                       *)
(*   lines 219-231  derived_ids, the sorts, the set-up of the work queue    *)
(*   lines 233-244  the requeue loop that orders the classes                *)
(*                                                                         *)
(* IRIs are the integers of Iris; their order is the order of the id        *)
(* strings that the sorts compare.  A string that is not an id (the result  *)
(* of context.compact, a fallback name, a class name) is a record           *)
(* [k |-> kind, n |-> iri].  An optional value is <<>> (None) or <<x>>.      *)
(***************************************************************************)
EXTENDS Integers, Sequences, FiniteSets, TLC

\* ---------------------------------------------------------------- bounds
\* Number of IRIs the graph declares as classes, where the graph is read
\* (classification, class construction).
NumIris == 2
\* Number of individuals the graph types.
NumIndividuals == 2
\* Number of rdfs:subClassOf triples in the graph.
MaxEdges == 3
\* Largest sh:minCount / sh:maxCount a shape declares.
MaxCount == 1
\* Number of structural classes handed to the ordering loop.
NumClasses == 3
\* Number of identifiers get_compact_id is called with after construction.
NumCompactIris == 2
\* Number of distinct fallback names a caller of get_compact_id may pass.
NumFallbacks == 2

Iris == 1..NumIris
Individuals == 1..NumIndividuals
\* An IRI that no graph declares as a class (a datatype such as xsd:string).
Undeclared == NumIris + 1
\* The predicate IRIs that property shapes name with sh:path.
Paths == {NumIris + 2}

None == <<>>
Some(x) == <<x>>

VARIABLES
    pc,             \* position in Model.__init__ / "done" once it has returned
    error,          \* None, or Some(message kind) of the ModelException raised
    declared,       \* graph: subjects of rdf:type owl:Class
    types,          \* graph: set of <<individual, class>> rdf:type triples
    named,          \* graph: individuals asserted owl:NamedIndividual
    subClassOf,     \* graph: set of <<class, parent>> rdfs:subClassOf triples
    referenceable,  \* graph: class -> optional SPDXS.referenceable literal
    shapes,         \* graph: class -> sequence of sh:property shapes
    context,        \* the context: id -> result of context.compact(id)
    todo,           \* the classes a for loop over a set has still to visit
    enums,          \* self.enums
    enum_iris,      \* enum_iris
    class_iris,     \* class_iris
    classes,        \* self.classes (the records classes_by_iri aliases)
    tmp_classes,    \* tmp_classes
    done_ids,       \* done_ids
    popped,         \* c: the class the while loop has popped (line 234), or None
    compact_ids,    \* self.compact_ids
    returned,       \* history: id -> set of [fallback, result] of the calls made
    compactCalls    \* history: id -> number of context.compact(id) invocations

vars == <<pc, error, declared, types, named, subClassOf, referenceable, shapes, context,
          todo, enums, enum_iris, class_iris, classes, tmp_classes, done_ids, popped,
          compact_ids, returned, compactCalls>>

graphVars == <<declared, types, named, subClassOf, referenceable, shapes, context>>

\* ------------------------------------------------------------- strings
\* str(_id): the identifier itself, as a string.
Iri(n) == [k |-> "iri", n |-> n]
\* A prefixed form such as "ns:Name", what a context that knows the prefix gives.
Short(n) == [k |-> "short", n |-> n]
\* The j-th fallback name a caller passes.
Fallback(j) == [k |-> "fallback", n |-> j]

Range(s) == {s[i] : i \in DOMAIN s}

\* ------------------------------------------------------ get_compact_id
\* The id set one Model is asked to compact: the domain of the context.
Ids == DOMAIN context

FallbackArgs == {None} \cup {Some(Fallback(j)) : j \in 1..NumFallbacks}

\* A plausible slip: the fallback is stored in the cache in place of the compaction.
CompactIdsCachingFallback(cache, _id, fallback) ==
    IF _id \in DOMAIN cache THEN cache
    ELSE cache @@ (_id :> IF context[_id] = Iri(_id) /\ fallback # None
                          THEN fallback[1] ELSE context[_id])

\* Lines 251-253: self.compact_ids after a call get_compact_id(_id, fallback=fallback).
CompactIdsAfter(cache, _id, fallback) ==
    IF _id \in DOMAIN cache THEN cache
    ELSE cache @@ (_id :> context[_id])

\* Lines 255-257: what the call returns.
GetCompactIdResult(cache, _id, fallback) ==
    LET c == CompactIdsAfter(cache, _id, fallback)[_id]
    IN  IF c = Iri(_id) /\ fallback # None THEN fallback[1] ELSE c

\* Line 263: get_class_name, the compacted name with ":" replaced by "_".
GetClassName(cache, c) ==
    [k |-> "name", n |-> GetCompactIdResult(cache, c, None)]

\* The history of one call: what it was given and what it returned, and whether
\* it invoked context.compact (line 253 runs only on a cache miss, line 252).
ReturnedAfter(hist, cache, _id, fallback) ==
    [hist EXCEPT ![_id] = @ \cup {[fallback |-> fallback,
                                   result |-> GetCompactIdResult(cache, _id, fallback)]}]

CompactCallsAfter(cnt, cache, _id) ==
    [cnt EXCEPT ![_id] = @ + (IF _id \in DOMAIN cache THEN 0 ELSE 1)]

\* A sequence of calls <<[id, fallback], ...>> made one after the other.
RECURSIVE CacheFold(_, _)
CacheFold(cache, calls) ==
    IF calls = <<>> THEN cache
    ELSE CacheFold(CompactIdsAfter(cache, Head(calls).id, Head(calls).fallback),
                   Tail(calls))

RECURSIVE ReturnedFold(_, _, _)
ReturnedFold(hist, cache, calls) ==
    IF calls = <<>> THEN hist
    ELSE ReturnedFold(ReturnedAfter(hist, cache, Head(calls).id, Head(calls).fallback),
                      CompactIdsAfter(cache, Head(calls).id, Head(calls).fallback),
                      Tail(calls))

RECURSIVE CompactCallsFold(_, _, _)
CompactCallsFold(cnt, cache, calls) ==
    IF calls = <<>> THEN cnt
    ELSE CompactCallsFold(CompactCallsAfter(cnt, cache, Head(calls).id),
                          CompactIdsAfter(cache, Head(calls).id, Head(calls).fallback),
                          Tail(calls))

\* The effect of a sequence of get_compact_id calls on the cache and the history.
Calls(calls) ==
    /\ compact_ids' = CacheFold(compact_ids, calls)
    /\ returned' = ReturnedFold(returned, compact_ids, calls)
    /\ compactCalls' = CompactCallsFold(compactCalls, compact_ids, calls)

Call(_id, fallback) == [id |-> _id, fallback |-> fallback]

\* Model.get_compact_id called on a constructed Model (lines 246-257).
GetCompactId(_id, fallback) ==
    /\ pc = "done"
    /\ Calls(<<Call(_id, fallback)>>)
    /\ UNCHANGED <<pc, error, graphVars, todo, enums, enum_iris, class_iris,
                   classes, tmp_classes, done_ids, popped>>

\* A context either leaves an identifier unchanged or shortens it.
Contexts(ids) == {f \in [ids -> {Iri(n) : n \in ids} \cup {Short(n) : n \in ids}] :
                    \A n \in ids : f[n] \in {Iri(n), Short(n)}}

\* The Model of a graph that declares no class (lines 90-98: every loop is empty),
\* under any context.
InitCompact ==
    /\ pc = "done"
    /\ error = None
    /\ declared = {} /\ types = {} /\ named = {} /\ subClassOf = {}
    /\ referenceable = <<>> /\ shapes = <<>>
    /\ context \in Contexts(1..NumCompactIris)
    /\ todo = {}
    /\ enums = <<>> /\ enum_iris = {} /\ class_iris = {}
    /\ classes = <<>> /\ tmp_classes = <<>> /\ done_ids = {} /\ popped = None
    /\ compact_ids = <<>>
    /\ returned = [n \in 1..NumCompactIris |-> {}]
    /\ compactCalls = [n \in 1..NumCompactIris |-> 0]

NextCompact == \E _id \in Ids, fallback \in FallbackArgs : GetCompactId(_id, fallback)

SpecCompact == InitCompact /\ [][NextCompact]_vars

\* C5 (as stated): any two calls of get_compact_id for the same identifier return
\* the identical result, whatever fallback either call passes, because a returned
\* fallback is cached in place of the compaction.
C5_SameResultEveryCall ==
    \A n \in Ids : \A r1, r2 \in returned[n] : r1.result = r2.result

\* C5 (amended): context.compact is invoked at most once per identifier and the
\* cache holds its result, never a fallback; a call returns the cached compaction,
\* except that it returns its own fallback when the compaction left the identifier
\* unchanged and the call passes one; so calls with the same fallback agree.
C5_CompactionCachedFallbackPerCall ==
    \A n \in Ids :
        /\ compactCalls[n] <= 1
        /\ n \in DOMAIN compact_ids => compact_ids[n] = context[n]
        /\ returned[n] # {} => n \in DOMAIN compact_ids /\ compactCalls[n] = 1
        /\ \A r \in returned[n] :
              r.result = IF context[n] = Iri(n) /\ r.fallback # None
                         THEN r.fallback[1] ELSE context[n]
        /\ \A r1, r2 \in returned[n] : r1.fallback = r2.fallback => r1.result = r2.result

\* An unshortened identifier asked for with a fallback, without one and with
\* another one: three different answers from one cache entry.
C5_Witness ==
    \E n \in Ids :
        /\ n \in DOMAIN compact_ids /\ compact_ids[n] = Iri(n)
        /\ \E r1, r2, r3 \in returned[n] :
              /\ r1.fallback = None /\ r2.fallback # None /\ r3.fallback # None
              /\ r2.fallback # r3.fallback
              /\ Cardinality({r1.result, r2.result, r3.result}) = 3

\* ------------------------------------------------------------ helpers
\* The orders in which iterating a set (or a graph query) can yield S.
Perms(S) == {q \in [1..Cardinality(S) -> S] : Range(q) = S}

\* A plausible slip: the list is left in insertion order.
SortIdsSkipped(s) == s

\* list.sort() on a list of ids (line 224): ascending and stable, so the element
\* at index i goes to the place after every smaller element and every equal
\* element that stood before it.
SortIds(s) ==
    LET Place(i) == 1 + Cardinality({j \in DOMAIN s :
                          s[j] < s[i] \/ (s[j] = s[i] /\ j < i)})
    IN  [k \in DOMAIN s |-> s[CHOOSE i \in DOMAIN s : Place(i) = k]]

\* list.sort(key=lambda x: x._id) (lines 121, 226, 227): ascending by _id, stable.
SortById(s) ==
    LET Place(i) == 1 + Cardinality({j \in DOMAIN s :
                          s[j]._id < s[i]._id \/ (s[j]._id = s[i]._id /\ j < i)})
    IN  [k \in DOMAIN s |-> s[CHOOSE i \in DOMAIN s : Place(i) = k]]

\* --------------------------------------------- lines 100-132: classification
\* A plausible slip: the test of line 104 is dropped.
NamedInstancesUnfiltered(cls_iri) ==
    {v \in Individuals : <<v, cls_iri>> \in types}

\* Lines 103-105: the instances of cls_iri that are asserted owl:NamedIndividual.
NamedInstances(cls_iri) ==
    {v \in named : <<v, cls_iri>> \in types}

\* Lines 107-121: the EnumValues of cls_iri, sorted by _id.
EnumValues(cls_iri) ==
    SortById(CHOOSE q \in Perms({[_id |-> v] : v \in NamedInstances(cls_iri)}) : TRUE)

\* Lines 123-128.
NewEnum(cache, cls_iri) ==
    [_id |-> cls_iri, clsname |-> GetClassName(cache, cls_iri),
     values |-> EnumValues(cls_iri)]

\* One iteration of the loop of line 100 for a class with a named individual
\* (lines 120-130).
ClassifyEnum(cls_iri) ==
    /\ pc = "classify"
    /\ cls_iri \in todo
    /\ EnumValues(cls_iri) # <<>>
    /\ enums' = Append(enums, NewEnum(compact_ids, cls_iri))
    /\ enum_iris' = enum_iris \cup {cls_iri}
    /\ Calls(<<Call(cls_iri, None)>>)
    /\ todo' = todo \ {cls_iri}
    /\ UNCHANGED <<pc, error, graphVars, class_iris, classes, tmp_classes, done_ids, popped>>

\* One iteration of the loop of line 100 for a class without one (lines 131-132).
ClassifyClass(cls_iri) ==
    /\ pc = "classify"
    /\ cls_iri \in todo
    /\ EnumValues(cls_iri) = <<>>
    /\ class_iris' = class_iris \cup {cls_iri}
    /\ todo' = todo \ {cls_iri}
    /\ UNCHANGED <<pc, error, graphVars, enums, enum_iris, classes, tmp_classes,
                   done_ids, popped, compact_ids, returned, compactCalls>>

\* The loop of line 100 is exhausted; the loop of line 144 starts.
ClassifyDone ==
    /\ pc = "classify"
    /\ todo = {}
    /\ pc' = "build"
    /\ todo' = class_iris
    /\ UNCHANGED <<error, graphVars, enums, enum_iris, class_iris, classes,
                   tmp_classes, done_ids, popped, compact_ids, returned, compactCalls>>

\* ------------------------------------- lines 134-217: the Class records
\* Lines 134-137: int_val.  "not v" holds of None and of a literal whose value
\* is 0 (rdflib's Literal.__bool__ is the truth value of the Python value).
int_val(v) ==
    IF v = None \/ v[1] = 0 THEN None ELSE Some(v[1])

\* Line 162: the closed list of referenceable values.
RefableValues == {"no", "local", "optional", "yes", "always"}

\* A plausible slip: the membership test is dropped.
RefableUnchecked(refable) == TRUE

\* Line 162.
RefableOk(refable) == refable \in RefableValues

\* Lines 157-159: str(model.value(cls_iri, SPDXS.referenceable, default="optional")).
Refable(cls_iri) ==
    IF referenceable[cls_iri] = None THEN "optional" ELSE referenceable[cls_iri][1]

\* Lines 147-151: the declared superclasses that are structural classes.
ParentIds(cls_iri) ==
    {parent_iri \in {t[2] : t \in {u \in subClassOf : u[1] = cls_iri}} :
        parent_iri \in class_iris}

\* The fallback name of line 176: remove_common_prefix(prop, cls_iri).
Suffix(prop) == [k |-> "suffix", n |-> prop]

\* Lines 170-183: the Property before its range is resolved.
NewProperty(cache, obj_prop) ==
    [path |-> obj_prop.path,
     varname |-> IF obj_prop.name # None THEN obj_prop.name[1]
                 ELSE GetCompactIdResult(cache, obj_prop.path, Some(Suffix(obj_prop.path))),
     max_count |-> int_val(obj_prop.maxCount),
     min_count |-> int_val(obj_prop.minCount),
     enum_id |-> None, class_id |-> None, datatype |-> None, pattern |-> None]

\* A plausible slip: an unknown sh:class target falls through to the later cases.
ResolveRangeFallingThrough(p, obj_prop) ==
    IF obj_prop.class # None /\ obj_prop.class[1] \in enum_iris
        THEN [err |-> None, p |-> [p EXCEPT !.enum_id = obj_prop.class]]
    ELSE IF obj_prop.class # None /\ obj_prop.class[1] \in class_iris
        THEN [err |-> None, p |-> [p EXCEPT !.class_id = obj_prop.class]]
    ELSE IF obj_prop.datatype # None
        THEN [err |-> None,
              p |-> [p EXCEPT !.datatype = obj_prop.datatype, !.pattern = obj_prop.pattern]]
    ELSE IF obj_prop.range # None
        THEN IF obj_prop.range[1] \in enum_iris
                THEN [err |-> None, p |-> [p EXCEPT !.enum_id = obj_prop.range]]
             ELSE IF obj_prop.range[1] \in class_iris
                THEN [err |-> None, p |-> [p EXCEPT !.class_id = obj_prop.range]]
             ELSE [err |-> None, p |-> [p EXCEPT !.datatype = obj_prop.range]]
    ELSE [err |-> Some("MissingRange"), p |-> p]

\* Lines 185-212: the range of the property, or the ModelException raised.
\* obj_prop.range is rdfs:range of the path (line 202).
ResolveRange(p, obj_prop) ==
    IF obj_prop.class # None
        THEN IF obj_prop.class[1] \in enum_iris
                THEN [err |-> None, p |-> [p EXCEPT !.enum_id = obj_prop.class]]
             ELSE IF obj_prop.class[1] \in class_iris
                THEN [err |-> None, p |-> [p EXCEPT !.class_id = obj_prop.class]]
             ELSE [err |-> Some("UnknownClassRestriction"), p |-> p]
    ELSE IF obj_prop.datatype # None
        THEN [err |-> None,
              p |-> [p EXCEPT !.datatype = obj_prop.datatype, !.pattern = obj_prop.pattern]]
    ELSE IF obj_prop.range # None
        THEN IF obj_prop.range[1] \in enum_iris
                THEN [err |-> None, p |-> [p EXCEPT !.enum_id = obj_prop.range]]
             ELSE IF obj_prop.range[1] \in class_iris
                THEN [err |-> None, p |-> [p EXCEPT !.class_id = obj_prop.range]]
             ELSE [err |-> None, p |-> [p EXCEPT !.datatype = obj_prop.range]]
    ELSE [err |-> Some("MissingRange"), p |-> p]

\* Lines 167-214: the loop over the shapes of one class, from the cache it starts
\* with; stops at the first ModelException.
RECURSIVE Properties(_, _, _)
Properties(cache, obj_props, acc) ==
    IF obj_props = <<>> THEN [err |-> None, properties |-> acc]
    ELSE LET obj_prop == Head(obj_props)
             r == ResolveRange(NewProperty(cache, obj_prop), obj_prop)
         IN  IF r.err # None THEN [err |-> r.err, properties |-> acc]
             ELSE Properties(CompactIdsAfter(cache, obj_prop.path, Some(Suffix(obj_prop.path))),
                             Tail(obj_props), Append(acc, r.p))

\* The get_compact_id calls of one iteration of the loop of line 144: line 153,
\* then line 174 for every shape.
BuildCalls(cls_iri) ==
    <<Call(cls_iri, None)>> \o
    [i \in DOMAIN shapes[cls_iri] |->
        Call(shapes[cls_iri][i].path, Some(Suffix(shapes[cls_iri][i].path)))]

\* Lines 145-160: the Class as constructed, before its properties.
NewClass(cache, cls_iri) ==
    [_id |-> cls_iri,
     parent_ids |-> ParentIds(cls_iri),
     derived_ids |-> <<>>,
     clsname |-> GetClassName(cache, cls_iri),
     properties |-> <<>>,
     refable |-> Refable(cls_iri)]

\* What one iteration of the loop of line 144 raises, if anything.
BuildError(cls_iri) ==
    IF ~RefableOk(Refable(cls_iri)) THEN Some("UnknownReferenceable")
    ELSE Properties(CompactIdsAfter(compact_ids, cls_iri, None), shapes[cls_iri], <<>>).err

\* One iteration of the loop of line 144 that raises nothing (lines 145-217).
BuildClass(cls_iri) ==
    /\ pc = "build"
    /\ cls_iri \in todo
    /\ BuildError(cls_iri) = None
    /\ classes' = Append(classes,
         [NewClass(compact_ids, cls_iri) EXCEPT !.properties =
            Properties(CompactIdsAfter(compact_ids, cls_iri, None),
                       shapes[cls_iri], <<>>).properties])
    /\ Calls(BuildCalls(cls_iri))
    /\ todo' = todo \ {cls_iri}
    /\ UNCHANGED <<pc, error, graphVars, enums, enum_iris, class_iris, tmp_classes,
                   done_ids, popped>>

\* One iteration of the loop of line 144 that raises ModelException (lines 163,
\* 193, 212): __init__ is left, no Model is returned.
BuildClassFails(cls_iri) ==
    /\ pc = "build"
    /\ cls_iri \in todo
    /\ BuildError(cls_iri) # None
    /\ pc' = "failed"
    /\ error' = BuildError(cls_iri)
    /\ todo' = todo \ {cls_iri}
    /\ UNCHANGED <<graphVars, enums, enum_iris, class_iris, classes, tmp_classes,
                   done_ids, popped, compact_ids, returned, compactCalls>>

\* ------------------------------------------ the classification, checked
\* The history of the get_class_name calls made for the classes of E so far.
ReturnedFor(E) ==
    [n \in Ids |-> IF n \in E THEN {[fallback |-> None, result |-> context[n]]} ELSE {}]

\* Model.__init__ at line 100, nothing classified yet, on a graph that declares
\* some of the IRIs as classes, types individuals with them (declared or not) and
\* asserts some individuals to be named individuals.
InitClassify ==
    /\ pc = "classify"
    /\ error = None
    /\ declared \in SUBSET Iris
    /\ types \in SUBSET (Individuals \X Iris)
    /\ named \in SUBSET Individuals
    /\ subClassOf = {}
    /\ referenceable = [n \in Iris |-> None]
    /\ shapes = [n \in Iris |-> <<>>]
    /\ context = [n \in Iris \cup {Undeclared} \cup Paths |-> Short(n)]
    /\ todo = declared
    /\ enums = <<>> /\ enum_iris = {} /\ class_iris = {}
    /\ classes = <<>> /\ tmp_classes = <<>> /\ done_ids = {} /\ popped = None
    /\ compact_ids = <<>>
    /\ returned = ReturnedFor({})
    /\ compactCalls = [n \in Ids |-> 0]

NextClassify ==
    \/ \E cls_iri \in todo : ClassifyEnum(cls_iri)
    \/ \E cls_iri \in todo : ClassifyClass(cls_iri)
    \/ ClassifyDone

SpecClassify == InitClassify /\ [][NextClassify]_vars

EnumIds == {enums[i]._id : i \in DOMAIN enums}

\* The declared classes the loop of line 100 has visited.
Classed == IF pc = "classify" THEN declared \ todo ELSE declared

\* C8: every declared class the loop has visited is in exactly one of the two
\* collections: once in self.enums if and only if one of its instances is asserted
\* a named individual, and then its values are exactly those instances; otherwise
\* in class_iris, from which self.classes is built.  When the loop is done the two
\* id sets are disjoint and together are the declared classes.
C8_EnumIffNamedInstance ==
    /\ \A cls \in Classed :
          /\ cls \in EnumIds <=> \E v \in named : <<v, cls>> \in types
          /\ cls \in class_iris <=> ~(cls \in EnumIds)
    /\ \A i, j \in DOMAIN enums : enums[i]._id = enums[j]._id => i = j
    /\ \A i \in DOMAIN enums :
          {enums[i].values[k]._id : k \in DOMAIN enums[i].values}
              = {v \in named : <<v, enums[i]._id>> \in types}
    /\ enum_iris = EnumIds
    /\ EnumIds \cap class_iris = {}
    /\ EnumIds \cup class_iris = Classed

\* The loop is done on a graph where one class is structural although an
\* individual is typed with it, and an enumeration has an instance that is not a
\* named individual and is not among its values.
C8_Witness ==
    /\ pc = "build"
    /\ \E cls \in class_iris : \E v \in Individuals : <<v, cls>> \in types
    /\ \E i \in DOMAIN enums : \E v \in Individuals :
          /\ <<v, enums[i]._id>> \in types
          /\ v \notin {enums[i].values[k]._id : k \in DOMAIN enums[i].values}

\* ------------------------------------------ the Class records, checked
\* The state at line 144 after the classification of a graph in which the classes
\* of E have a named individual and the other IRIs of Iris have none.
Classified(E) ==
    /\ pc = "build"
    /\ error = None
    /\ declared = Iris
    /\ types = {<<1, e>> : e \in E}
    /\ named = IF E = {} THEN {} ELSE {1}
    /\ enum_iris = E
    /\ class_iris = Iris \ E
    /\ todo = Iris \ E
    /\ compact_ids = [n \in E |-> context[n]]
    /\ returned = ReturnedFor(E)
    /\ compactCalls = [n \in Ids |-> IF n \in E THEN 1 ELSE 0]
    /\ enums \in {[i \in DOMAIN q |-> NewEnum(compact_ids, q[i])] : q \in Perms(E)}
    /\ classes = <<>> /\ tmp_classes = <<>> /\ done_ids = {} /\ popped = None

RefableInputs == RefableValues \cup {"maybe"}

\* Model.__init__ at line 144 on a graph with subclass triples (to classes, to
\* enumerations, to itself, to an IRI that is no class), where one class may carry
\* a referenceable value, and without property shapes.
InitBuild ==
    \E E \in SUBSET Iris :
    \E edges \in {e \in SUBSET (Iris \X (Iris \cup {Undeclared})) : Cardinality(e) <= MaxEdges} :
    \E holder \in Iris : \E v \in {None} \cup {Some(x) : x \in RefableInputs} :
        /\ subClassOf = edges
        /\ referenceable = [n \in Iris |-> IF n = holder THEN v ELSE None]
        /\ shapes = [n \in Iris |-> <<>>]
        /\ context = [n \in Iris \cup {Undeclared} \cup Paths |-> Short(n)]
        /\ Classified(E)

NextBuild ==
    \/ \E cls_iri \in todo : BuildClass(cls_iri)
    \/ \E cls_iri \in todo : BuildClassFails(cls_iri)

SpecBuild == InitBuild /\ [][NextBuild]_vars

\* The record of the class id in self.classes.
RecordOf(id) == classes[CHOOSE i \in DOMAIN classes : classes[i]._id = id]

Built == {classes[i]._id : i \in DOMAIN classes}

\* The structural classes the loop of line 144 has visited.
Visited == class_iris \ todo

\* C6: every Class record has refable among no, local, optional, yes, always,
\* "optional" when the class has no referenceable value and the value otherwise;
\* a class with any other value makes the construction fail: no record is made
\* for it and the loop does not go on.
C6_RefableClosed ==
    /\ \A i \in DOMAIN classes :
          /\ classes[i].refable \in {"no", "local", "optional", "yes", "always"}
          /\ classes[i].refable =
                IF referenceable[classes[i]._id] = None THEN "optional"
                ELSE referenceable[classes[i]._id][1]
    /\ \A cls \in Visited :
          (referenceable[cls] # None /\
           referenceable[cls][1] \notin {"no", "local", "optional", "yes", "always"})
          => /\ pc = "failed"
             /\ error = Some("UnknownReferenceable")
             /\ cls \notin Built
    /\ pc = "build" => Visited = Built

\* Two records: one "optional" for want of a value, one with the declared value.
C6_Witness ==
    \E i, j \in DOMAIN classes :
        /\ referenceable[classes[i]._id] = None /\ classes[i].refable = "optional"
        /\ referenceable[classes[j]._id] = Some("always") /\ classes[j].refable = "always"

\* C7: the parent_ids of a Class record never include an enumeration id and never
\* include the record's own id, whatever the graph declares.
C7_ParentIdsExcludeEnumsAndSelf ==
    \A i \in DOMAIN classes :
        /\ classes[i].parent_ids \cap enum_iris = {}
        /\ classes[i]._id \notin classes[i].parent_ids

\* ------------------------------------------ the properties, checked
OptionOf(S) == {None} \cup {Some(x) : x \in S}

\* The property shapes a graph may hold: sh:path, sh:name, sh:class, sh:datatype,
\* sh:pattern, sh:minCount, sh:maxCount, and rdfs:range of the path.  A class or
\* range target is a class, an enumeration or an IRI that is neither; a datatype
\* is an IRI that is no class.
ShapeDomain ==
    [path : Paths,
     name : OptionOf({[k |-> "label", n |-> 1]}),
     class : OptionOf(Iris \cup {Undeclared}),
     datatype : OptionOf({Undeclared}),
     pattern : OptionOf({[k |-> "pattern", n |-> 1]}),
     range : OptionOf(Iris \cup {Undeclared}),
     minCount : OptionOf(0..MaxCount),
     maxCount : OptionOf(0..MaxCount)]

\* Model.__init__ at line 144 on a graph in which one structural class has one
\* property shape, under a context that shortens the path or leaves it unchanged.
InitProps ==
    \E E \in SUBSET Iris : \E owner \in Iris \ E : \E obj_prop \in ShapeDomain :
    \E compacted \in {Iri(obj_prop.path), Short(obj_prop.path)} :
        /\ subClassOf = {}
        /\ referenceable = [n \in Iris |-> None]
        /\ shapes = [n \in Iris |-> IF n = owner THEN <<obj_prop>> ELSE <<>>]
        /\ context = [n \in Iris \cup {Undeclared} \cup Paths |->
                        IF n = obj_prop.path THEN compacted ELSE Short(n)]
        /\ Classified(E)

SpecProps == InitProps /\ [][NextBuild]_vars

\* The kinds of range a Property has populated.
Populated(p) ==
    {f \in {"enum_id", "class_id", "datatype"} : p[f] # None}

\* C4: the range of every property is resolved by strict precedence and exactly
\* one of enum_id, class_id, datatype is populated: a class restriction gives the
\* enumeration or the class it names and otherwise fails the construction with
\* "unknown class restriction", whatever datatype or rdfs:range there is; else a
\* datatype restriction gives the datatype with the shape's pattern; else the
\* rdfs:range of the path gives an enumeration, a class or a datatype without
\* pattern; else the construction fails with "missing range".
C4_RangePrecedence ==
    \A cls \in Visited :
        LET made == cls \in Built
            Unknown(sh) == sh.class # None /\ sh.class[1] \notin enum_iris \cup class_iris
            Missing(sh) == sh.class = None /\ sh.datatype = None /\ sh.range = None
            bad == {i \in DOMAIN shapes[cls] :
                      Unknown(shapes[cls][i]) \/ Missing(shapes[cls][i])}
            first == CHOOSE i \in bad : \A j \in bad : i <= j
        IN  IF bad # {} THEN
                /\ ~made
                /\ pc = "failed"
                /\ error = IF Unknown(shapes[cls][first])
                           THEN Some("UnknownClassRestriction") ELSE Some("MissingRange")
            ELSE
                /\ made
                /\ Len(RecordOf(cls).properties) = Len(shapes[cls])
                /\ \A i \in DOMAIN shapes[cls] :
                      LET sh == shapes[cls][i]
                          p == RecordOf(cls).properties[i]
                      IN  /\ Cardinality(Populated(p)) = 1
                          /\ IF sh.class # None THEN
                                /\ p.pattern = None
                                /\ IF sh.class[1] \in enum_iris
                                   THEN p.enum_id = sh.class ELSE p.class_id = sh.class
                             ELSE IF sh.datatype # None THEN
                                p.datatype = sh.datatype /\ p.pattern = sh.pattern
                             ELSE
                                /\ p.pattern = None
                                /\ IF sh.range[1] \in enum_iris THEN p.enum_id = sh.range
                                   ELSE IF sh.range[1] \in class_iris
                                   THEN p.class_id = sh.range
                                   ELSE p.datatype = sh.range

\* A property whose shape has a class restriction naming an enumeration, a
\* datatype restriction with a pattern and a path with an rdfs:range: the class
\* restriction alone decides.
C4_Witness ==
    \E cls \in Built : \E i \in DOMAIN shapes[cls] :
        /\ shapes[cls][i].class # None /\ shapes[cls][i].class[1] \in enum_iris
        /\ shapes[cls][i].datatype # None /\ shapes[cls][i].pattern # None
        /\ shapes[cls][i].range # None
        /\ RecordOf(cls).properties[i].enum_id = shapes[cls][i].class
        /\ Populated(RecordOf(cls).properties[i]) = {"enum_id"}

\* C9: min_count and max_count of a Property are the counts the shape declares,
\* a declared 0 included, and None only when the shape declares none.
C9_CountsAsDeclared ==
    \A cls \in Built : \A i \in DOMAIN RecordOf(cls).properties :
        /\ RecordOf(cls).properties[i].min_count = shapes[cls][i].minCount
        /\ RecordOf(cls).properties[i].max_count = shapes[cls][i].maxCount

\* -------------------------- lines 219-231: derived_ids, sorts, work queue
\* Lines 219-221: the derived_ids list of the class p, in the order the double
\* loop appends to it (classes_by_iri[p] is the record of p in self.classes).
DerivedIds(cs, p) ==
    LET IsDerived(c) == p \in c.parent_ids
        derived == SelectSeq(cs, IsDerived)
    IN  [i \in DOMAIN derived |-> derived[i]._id]

\* Lines 219-224: every record with its derived_ids appended and sorted.
Linked(cs) ==
    [i \in DOMAIN cs |-> [cs[i] EXCEPT !.derived_ids = SortIds(DerivedIds(cs, cs[i]._id))]]

\* The loop of line 144 is exhausted: lines 219-231.
LinkAndSort ==
    /\ pc = "build"
    /\ todo = {}
    /\ enums' = SortById(enums)
    /\ \E linked \in {Linked(classes)} : tmp_classes' = SortById(linked)
    /\ done_ids' = {}
    /\ classes' = <<>>
    /\ pc' = "order"
    /\ UNCHANGED <<error, graphVars, todo, enum_iris, class_iris, popped, compact_ids,
                   returned, compactCalls>>

\* ------------------------------------- lines 233-244: the requeue loop
\* A plausible slip: any() where all() is meant.
AnyParentDone(c, done) ==
    c.parent_ids = {} \/ \E p \in c.parent_ids : p \in done

\* Line 239: all(p in done_ids for p in c.parent_ids).
AllParentsDone(c, done) ==
    \A p \in c.parent_ids : p \in done

\* A plausible slip: the emitted class is not recorded as done.
DoneIdsForgotten(done, c) == done

\* Line 244.
DoneIdsAfter(done, c) == done \cup {c._id}

\* Lines 233-234: the queue is not empty, its first class is popped.
Pop ==
    /\ pc = "order"
    /\ tmp_classes # <<>>
    /\ popped' = Some(Head(tmp_classes))
    /\ tmp_classes' = Tail(tmp_classes)
    /\ pc' = "popped"
    /\ UNCHANGED <<error, graphVars, todo, enums, enum_iris, class_iris, classes,
                   done_ids, compact_ids, returned, compactCalls>>

\* Lines 239-241: a parent is outstanding, the class goes to the end of the queue.
Requeue ==
    /\ pc = "popped"
    /\ ~AllParentsDone(popped[1], done_ids)
    /\ tmp_classes' = Append(tmp_classes, popped[1])
    /\ pc' = "order"
    /\ UNCHANGED <<error, graphVars, todo, enums, enum_iris, class_iris, classes, popped,
                   done_ids, compact_ids, returned, compactCalls>>

\* Lines 239, 243-244: every parent is done, the class is emitted.
Emit ==
    /\ pc = "popped"
    /\ AllParentsDone(popped[1], done_ids)
    /\ classes' = Append(classes, popped[1])
    /\ done_ids' = DoneIdsAfter(done_ids, popped[1])
    /\ pc' = "order"
    /\ UNCHANGED <<error, graphVars, todo, enums, enum_iris, class_iris, tmp_classes,
                   popped, compact_ids, returned, compactCalls>>

\* The while loop ends (line 233) and __init__ returns the Model.
Return ==
    /\ pc = "order"
    /\ tmp_classes = <<>>
    /\ pc' = "done"
    /\ UNCHANGED <<error, graphVars, todo, enums, enum_iris, class_iris, classes,
                   tmp_classes, popped, done_ids, compact_ids, returned, compactCalls>>

\* ------------------------------------------- the ordering of the classes
Classes == 1..NumClasses

\* Model.__init__ at line 219, the loop of line 144 exhausted: the structural
\* classes S of the graph in the order the set class_iris was iterated, each with
\* the parents that line 150 kept; the other classes are enumerations, in the
\* order the graph yielded them.  No class carries metadata or shapes.
InitOrder ==
    \E S \in SUBSET Classes :
    \E edges \in {e \in SUBSET (S \X S) : Cardinality(e) <= MaxEdges} :
        /\ pc = "build"
        /\ error = None
        /\ declared = Classes
        /\ types = {<<1, e>> : e \in Classes \ S}
        /\ named = IF S = Classes THEN {} ELSE {1}
        /\ subClassOf = edges
        /\ referenceable = [n \in Classes |-> None]
        /\ shapes = [n \in Classes |-> <<>>]
        /\ context = [n \in Classes |-> Short(n)]
        /\ todo = {}
        /\ enum_iris = Classes \ S
        /\ class_iris = S
        /\ compact_ids = [n \in Classes |-> Short(n)]
        /\ returned = [n \in Classes |-> {[fallback |-> None, result |-> Short(n)]}]
        /\ compactCalls = [n \in Classes |-> 1]
        /\ enums \in {[i \in DOMAIN q |-> NewEnum(compact_ids, q[i])] : q \in Perms(enum_iris)}
        /\ classes \in {[i \in DOMAIN q |-> NewClass(compact_ids, q[i])] : q \in Perms(class_iris)}
        /\ tmp_classes = <<>>
        /\ done_ids = {}
        /\ popped = None

NextOrder == LinkAndSort \/ Pop \/ Requeue \/ Emit \/ Return

Spec == InitOrder /\ [][NextOrder]_vars

\* __init__ runs to its end without waiting for anything: a step that can be
\* taken is taken.
FairSpec == Spec /\ WF_vars(NextOrder)

\* The records of the structural classes, wherever the constructor holds them.
Records == Range(classes) \cup Range(tmp_classes) \cup Range(popped)

\* Some class is its own ancestor: a closed walk along parent_ids.
CyclicHierarchy ==
    \E n \in 1..Cardinality(Records) : \E walk \in [1..n -> Records] :
        /\ \A i \in 1..(n - 1) : walk[i + 1]._id \in walk[i].parent_ids
        /\ walk[1]._id \in walk[n].parent_ids

\* C1: in a Model whose construction has completed, every parent of a class of
\* self.classes stands at a strictly earlier position of self.classes.
C1_ParentsEarlier ==
    pc = "done" =>
        \A i \in DOMAIN classes : \A p \in classes[i].parent_ids :
            \E j \in 1..(i - 1) : classes[j]._id = p

\* A completed Model in which a class was pushed back behind a parent with a
\* larger id: the output order differs from the id order.
C1_Witness ==
    /\ pc = "done"
    /\ \E i, j \in DOMAIN classes :
          /\ j < i
          /\ classes[j]._id \in classes[i].parent_ids
          /\ classes[j]._id > classes[i]._id

\* C2: when the parent graph of the structural classes has a cycle, construction
\* fails with the fatal error CyclicClassHierarchy (and returns no Model).
C2_CycleFails ==
    CyclicHierarchy ~> (pc = "failed" /\ error = Some("CyclicClassHierarchy"))

\* C3: in a Model whose construction has completed, D is a parent of C exactly
\* when C is in D.derived_ids, and every derived_ids list is sorted ascending.
C3_DerivedInverseSorted ==
    pc = "done" =>
        /\ \A c, d \in Range(classes) :
              d._id \in c.parent_ids <=> c._id \in Range(d.derived_ids)
        /\ \A d \in Range(classes) : \A i, j \in DOMAIN d.derived_ids :
              i < j => d.derived_ids[i] <= d.derived_ids[j]

\* A completed Model with a class that has two derived classes and a class that
\* has two parents.
C3_Witness ==
    /\ pc = "done"
    /\ \E d \in Range(classes) : Len(d.derived_ids) >= 2
    /\ \E c \in Range(classes) : Cardinality(c.parent_ids) >= 2

\* Every structural class is in self.classes exactly once.
EmittedOnce ==
    /\ Len(classes) = Cardinality(class_iris)
    /\ {classes[i]._id : i \in DOMAIN classes} = class_iris

\* C10: when the parent graph of the structural classes is acyclic, the requeue
\* loop empties the work queue and terminates, every structural class emitted
\* exactly once.
C10_AcyclicTerminates ==
    (~CyclicHierarchy) ~> (pc = "done" /\ tmp_classes = <<>> /\ EmittedOnce)

\* The loop has ended on a chain in which every class has the next larger id as
\* its parent: each class but the last was pushed back at least once.
C10_Witness ==
    /\ pc = "done"
    /\ Len(classes) = NumClasses
    /\ \A i \in DOMAIN classes : classes[i].parent_ids =
          IF classes[i]._id = NumClasses THEN {} ELSE {classes[i]._id + 1}

====
